---- MODULE Spec2Model ----
(***************************************************************************)
(* A model of the interpreter pipeline of src/src/interpreter:             *)
(*   Lexer (lexer.rs) -> Parser (parser.rs) -> SymbolTable (symbol.rs)     *)
(*   -> Interpreter (intr.rs).                                             *)
(* A String is a sequence of one-character strings.  A panic!() of the     *)
(* code is the field/variable `panic` holding the message of the panic     *)
(* ("" when nothing panicked); after a panic nothing else runs.            *)
(***************************************************************************)
EXTENDS Integers, Sequences, FiniteSets, TLC

(***************************************************************************)
(* Characters                                                              *)
(***************************************************************************)
LowerLetters == <<"a","b","c","d","e","f","g","h","i","j","k","l","m",
                  "n","o","p","q","r","s","t","u","v","w","x","y","z">>

UpperLetters == <<"A","B","C","D","E","F","G","H","I","J","K","L","M",
                  "N","O","P","Q","R","S","T","U","V","W","X","Y","Z">>

DigitChars == <<"0","1","2","3","4","5","6","7","8","9">>

Range(s) == {s[i] : i \in DOMAIN s}

\* `let value = ...;` of the code: F of the value, which is computed once
\* (the value is bound as an element of a set, so it is computed before F)
With(value, F(_)) == CHOOSE result \in {F(bound) : bound \in {value}} : TRUE

\* char::is_whitespace
is_whitespace(c) == c \in {" ", "\n", "\t", "\r"}

\* char::is_ascii_digit
is_ascii_digit(c) == c \in Range(DigitChars)

\* char::is_alphabetic (over the ASCII letters)
is_alphabetic(c) == c \in Range(LowerLetters) \cup Range(UpperLetters)

\* char::is_alphanumeric
is_alphanumeric(c) == is_alphabetic(c) \/ is_ascii_digit(c)

\* char::to_uppercase, one character
to_uppercase_char(c) ==
    IF c \in Range(LowerLetters)
    THEN UpperLetters[CHOOSE i \in DOMAIN LowerLetters : LowerLetters[i] = c]
    ELSE c

\* str::to_uppercase
to_uppercase(text) == [i \in DOMAIN text |-> to_uppercase_char(text[i])]

\* char::to_lowercase, one character
to_lowercase_char(c) ==
    IF c \in Range(UpperLetters)
    THEN LowerLetters[CHOOSE i \in DOMAIN UpperLetters : UpperLetters[i] = c]
    ELSE c

\* str::to_lowercase
to_lowercase(text) == [i \in DOMAIN text |-> to_lowercase_char(text[i])]

(***************************************************************************)
(* token.rs                                                                *)
(***************************************************************************)
\* Token::new
Token(token_type, token_text) ==
    [token_type |-> token_type, token_text |-> token_text]

\* TokenType::get_keyword_token: Some(t) is <<t>>, None is <<>>
get_keyword_token(text) ==
    With(to_uppercase(text), LAMBDA upper_text :
    CASE upper_text = <<"L","E","T">>             -> <<"LET">>
      [] upper_text = <<"P","R","I","N","T">>     -> <<"PRINT">>
      [] upper_text = <<"E","N","D">>             -> <<"END">>
      [] upper_text = <<"I","F">>                 -> <<"IF">>
      [] upper_text = <<"T","H","E","N">>         -> <<"THEN">>
      [] upper_text = <<"W","H","I","L","E">>     -> <<"WHILE">>
      [] upper_text = <<"E","L","S","E","I","F">> -> <<"ELSEIF">>
      [] upper_text = <<"E","L","S","E">>         -> <<"ELSE">>
      [] OTHER                                    -> <<>>)

(***************************************************************************)
(* lexer.rs.  `input` is what the Peekable<Chars> has left to yield.       *)
(* A lexer function returns the token, the input left and the panic.       *)
(***************************************************************************)
\* the character '\0' of the end-of-input token's text
NulChar == "NUL"

Lexed(token, input) == [token |-> token, input |-> input, panic |-> ""]

LexPanic(message, input) ==
    [token |-> Token("ILLEGAL", <<>>), input |-> input, panic |-> message]

\* Lexer::is_next_whitespace
is_next_whitespace(input) == input # <<>> /\ is_whitespace(Head(input))

\* Lexer::is_next_alphanumeric
is_next_alphanumeric(input) == input # <<>> /\ is_alphanumeric(Head(input))

\* Lexer::is_next_digit
is_next_digit(input) == input # <<>> /\ is_ascii_digit(Head(input))

\* Lexer::is_next_check
is_next_check(input, check) == input # <<>> /\ Head(input) = check

\* Lexer::has_next_token
has_next_token(input) == input # <<>>

\* the loop `while self.is_next_whitespace() { self.input.next(); }`
RECURSIVE skip_whitespace(_)
skip_whitespace(input) ==
    IF is_next_whitespace(input) THEN skip_whitespace(Tail(input)) ELSE input

\* the loop `while self.is_next_digit() { value.push_str(next) }`
RECURSIVE take_digits(_, _)
take_digits(value, input) ==
    IF is_next_digit(input)
    THEN take_digits(Append(value, Head(input)), Tail(input))
    ELSE [value |-> value, input |-> input]

\* the loop `while self.is_next_alphanumeric() { value.push_str(next) }`
RECURSIVE take_alphanumeric(_, _)
take_alphanumeric(value, input) ==
    IF is_next_alphanumeric(input)
    THEN take_alphanumeric(Append(value, Head(input)), Tail(input))
    ELSE [value |-> value, input |-> input]

\* the loop of process_string: `while let Some(c) = self.input.next()`
RECURSIVE take_string(_, _, _)
take_string(value, end_value, input) ==
    IF input = <<>>
    THEN [value |-> value, end_value |-> end_value, input |-> input]
    ELSE IF Head(input) = "\""
         THEN [value |-> value, end_value |-> "\"", input |-> Tail(input)]
         ELSE take_string(Append(value, Head(input)), Head(input), Tail(input))

\* Lexer::process_string
process_string(input) ==
    With(take_string(<<>>, "\"", input), LAMBDA r :
    IF r.end_value # "\""
    THEN LexPanic("Unclosed string literal found", r.input)
    ELSE Lexed(Token("STRING", r.value), r.input))

\* Lexer::process_number
process_number(start_char, input) ==
    With(take_digits(<<start_char>>, input), LAMBDA whole :
    IF is_next_check(whole.input, ".")
    THEN With(take_digits(Append(whole.value, "."), Tail(whole.input)),
              LAMBDA frac :
              IF ~is_next_digit(Tail(whole.input))
              THEN LexPanic("Invalid number found", Tail(whole.input))
              ELSE Lexed(Token("NUMBER", frac.value), frac.input))
    ELSE Lexed(Token("NUMBER", whole.value), whole.input))

\* Lexer::process_alpha
process_alpha(start_char, input) ==
    With(take_alphanumeric(<<start_char>>, input), LAMBDA r :
    With(get_keyword_token(r.value), LAMBDA token_type :
    IF token_type # <<>>
    THEN Lexed(Token(token_type[1], r.value), r.input)
    ELSE Lexed(Token("IDENT", r.value), r.input)))

\* the arm Some('<') of Lexer::get_token
get_token_lt(rest) ==
    IF is_next_check(rest, "<")
    THEN Lexed(Token("LTEQ", <<"<", "=">>), Tail(rest))
    ELSE Lexed(Token("LT", <<"<">>), rest)

\* the match of Lexer::get_token on self.input.next()
get_token_match(input) ==
    IF input = <<>>
    THEN Lexed(Token("EOF", <<NulChar>>), input)
    ELSE
      LET c == Head(input)
          rest == Tail(input)
      IN  CASE c = "+" -> Lexed(Token("PLUS", <<"+">>), rest)
            [] c = "-" -> Lexed(Token("MINUS", <<"-">>), rest)
            [] c = "*" -> Lexed(Token("ASTERISK", <<"*">>), rest)
            [] c = "/" -> Lexed(Token("SLASH", <<"/">>), rest)
            [] c = "=" ->
                 IF is_next_check(rest, "=")
                 THEN Lexed(Token("EQEQ", <<"=", "=">>), Tail(rest))
                 ELSE Lexed(Token("EQ", <<"=">>), rest)
            [] c = ">" ->
                 IF is_next_check(rest, "=")
                 THEN Lexed(Token("GTEQ", <<">", "=">>), Tail(rest))
                 ELSE Lexed(Token("GT", <<">">>), rest)
            [] c = "<" -> get_token_lt(rest)
            [] c = "!" ->
                 IF is_next_check(rest, "=")
                 THEN Lexed(Token("NOTEQ", <<"!", "=">>), Tail(rest))
                 ELSE LexPanic("Invalid token found", rest)
            [] c = "\"" -> process_string(rest)
            [] is_ascii_digit(c) -> process_number(c, rest)
            [] is_alphabetic(c) -> process_alpha(c, rest)
            [] c = ";" -> Lexed(Token("SEMICOLON", <<";">>), rest)
            [] OTHER -> Lexed(Token("ILLEGAL", <<>>), rest)

\* get_token without its loop over the whitespace before the token
get_token_no_skip(input) == get_token_match(input)

\* Lexer::get_token
get_token(input) == With(skip_whitespace(input), get_token_match)

(***************************************************************************)
(* ast.rs.  Every node is a record with a `kind`; an Option is a sequence  *)
(* of length 0 (None) or 1 (Some); a Block is the sequence of its          *)
(* statements.                                                             *)
(***************************************************************************)
\* the node held by a result whose parser has panicked
Nil == [kind |-> "Nil"]

\* Block::new
Block(statements) == statements

\* AbstractSyntaxTree::new
AbstractSyntaxTree(block) == [block |-> block]

\* Literal::String
LiteralString(s) == [kind |-> "String", s |-> s]

\* Literal::Number
LiteralNumber(s) == [kind |-> "Number", s |-> s]

\* Expression::Literal
ExpressionLiteral(literal) == [kind |-> "Literal", literal |-> literal]

\* Expression::Ident(Ident::new(symbol))
ExpressionIdent(symbol) == [kind |-> "Ident", symbol |-> symbol]

\* Expression::BinaryOp(Box::new(BinaryOp::new(..)))
ExpressionBinaryOp(left_term, operator, right_term) ==
    [kind |-> "BinaryOp", left_term |-> left_term, operator |-> operator,
     right_term |-> right_term]

\* Expression::UnaryOp(Box::new(UnaryOp::new(..)))
ExpressionUnaryOp(operator, term) ==
    [kind |-> "UnaryOp", operator |-> operator, term |-> term]

\* Condition::new
Condition(left_expression, comparator, right_expression) ==
    [left_expression |-> left_expression, comparator |-> comparator,
     right_expression |-> right_expression]

\* Statement::Print
StatementPrint(expression) == [kind |-> "Print", expression |-> expression]

\* Statement::Let
StatementLet(symbol, expression) ==
    [kind |-> "Let", symbol |-> symbol, expression |-> expression]

\* Statement::Assignment
StatementAssignment(symbol, expression) ==
    [kind |-> "Assignment", symbol |-> symbol, expression |-> expression]

\* Statement::If
StatementIf(if_statement) == [kind |-> "If", if_statement |-> if_statement]

\* Statement::While
StatementWhile(condition, block) ==
    [kind |-> "While", condition |-> condition, block |-> block]

\* IfStatement::If
IfStatementIf(condition, block, other) ==
    [kind |-> "If", condition |-> condition, block |-> block, other |-> other]

\* IfStatement::ElseIf
IfStatementElseIf(condition, block, other) ==
    [kind |-> "ElseIf", condition |-> condition, block |-> block,
     other |-> other]

\* IfStatement::Else
IfStatementElse(block) == [kind |-> "Else", block |-> block]

(***************************************************************************)
(* parser.rs.  A parser `p` is the record of the Parser's fields: the      *)
(* lexer's input, current_token, next_token, and the panic.  A parse       *)
(* function returns the parser after it and the node it built.             *)
(***************************************************************************)
\* Parser::new
ParserNew(input) ==
    [input |-> input,
     current_token |-> Token("ILLEGAL", <<>>),
     next_token |-> Token("ILLEGAL", <<>>),
     panic |-> ""]

Parsed(p, node) == [p |-> p, node |-> node]

ParsePanic(p, message) == [p |-> [p EXCEPT !.panic = message], node |-> Nil]

\* a process_next that passes over an illegal token
process_next_skip_illegal(p) ==
    IF p.panic # "" THEN p
    ELSE With(get_token(p.input), LAMBDA r :
         With(IF r.panic = "" /\ r.token.token_type = "ILLEGAL"
              THEN get_token(r.input) ELSE r, LAMBDA legal :
         [input |-> legal.input,
          current_token |-> p.next_token,
          next_token |-> legal.token,
          panic |-> legal.panic]))

\* Parser::process_next
process_next(p) ==
    IF p.panic # "" THEN p
    ELSE With(get_token(p.input), LAMBDA r :
         [input |-> r.input,
          current_token |-> p.next_token,
          next_token |-> r.token,
          panic |-> r.panic])

\* Parser::check_token
check_token(p, token_type) == p.current_token.token_type = token_type

\* a match_token that lets a missing token pass
match_token_lenient(p, token_type) ==
    IF p.panic # "" THEN p
    ELSE IF ~check_token(p, token_type)
         THEN p
         ELSE process_next(p)

\* Parser::match_token
match_token(p, token_type) ==
    IF p.panic # "" THEN p
    ELSE IF ~check_token(p, token_type)
         THEN [p EXCEPT !.panic = "Syntax error! - Expected"]
         ELSE process_next(p)

\* Parser::parse_primary
parse_primary(p) ==
    IF p.panic # "" THEN Parsed(p, Nil)
    ELSE IF check_token(p, "NUMBER") \/ check_token(p, "IDENT")
    THEN Parsed(process_next(p),
                IF check_token(p, "NUMBER")
                THEN ExpressionLiteral(LiteralNumber(p.current_token.token_text))
                ELSE ExpressionIdent(p.current_token.token_text))
    ELSE ParsePanic(p, "Syntax Error! Expected number of ident")

\* Parser::parse_unary
parse_unary(p) ==
    IF p.panic # "" THEN Parsed(p, Nil)
    ELSE IF check_token(p, "PLUS") \/ check_token(p, "MINUS")
    THEN With(With(process_next(p), parse_primary), LAMBDA r :
         Parsed(r.p, ExpressionUnaryOp(
                         IF check_token(p, "PLUS") THEN "Plus" ELSE "Minus",
                         r.node)))
    ELSE parse_primary(p)

\* the loop of parse_term: `while SLASH || ASTERISK`
RECURSIVE parse_term_loop(_, _)
parse_term_loop(p, unary) ==
    IF p.panic = "" /\ (check_token(p, "SLASH") \/ check_token(p, "ASTERISK"))
    THEN With(With(process_next(p), parse_unary), LAMBDA r :
         parse_term_loop(r.p, ExpressionBinaryOp(
             unary,
             IF check_token(p, "ASTERISK") THEN "Times" ELSE "Divides",
             r.node)))
    ELSE Parsed(p, unary)

\* Parser::parse_term
parse_term(p) ==
    With(parse_unary(p), LAMBDA r : parse_term_loop(r.p, r.node))

\* the loop of parse_expression: `while PLUS || MINUS`
RECURSIVE parse_expression_loop(_, _)
\* the loop folding to the right: a - (b - c)
parse_expression_loop_right(p, term) ==
    IF p.panic = "" /\ (check_token(p, "PLUS") \/ check_token(p, "MINUS"))
    THEN With(With(process_next(p), parse_term), LAMBDA r :
         With(parse_expression_loop(r.p, r.node), LAMBDA rest :
         Parsed(rest.p, ExpressionBinaryOp(
             term,
             IF check_token(p, "PLUS") THEN "Plus" ELSE "Minus",
             rest.node))))
    ELSE Parsed(p, term)

parse_expression_loop(p, term) ==
    IF p.panic = "" /\ (check_token(p, "PLUS") \/ check_token(p, "MINUS"))
    THEN With(With(process_next(p), parse_term), LAMBDA r :
         parse_expression_loop(r.p, ExpressionBinaryOp(
             term,
             IF check_token(p, "PLUS") THEN "Plus" ELSE "Minus",
             r.node)))
    ELSE Parsed(p, term)

\* the arm `_` of Parser::parse_expression
parse_expression_terms(p) ==
    With(parse_term(p), LAMBDA r : parse_expression_loop(r.p, r.node))

\* Parser::parse_expression
parse_expression(p) ==
    IF p.panic # "" THEN Parsed(p, Nil)
    ELSE IF check_token(p, "STRING")
         THEN Parsed(process_next(p),
                     ExpressionLiteral(LiteralString(p.current_token.token_text)))
         ELSE parse_expression_terms(p)

\* the match of parse_condition on the current token: Some(c) / None
comparator_of(token_type) ==
    CASE token_type = "EQEQ"  -> <<"Equal">>
      [] token_type = "NOTEQ" -> <<"NotEqual">>
      [] token_type = "GT"    -> <<"GreaterThan">>
      [] token_type = "GTEQ"  -> <<"GreaterThanOrEqual">>
      [] token_type = "LT"    -> <<"LessThan">>
      [] token_type = "LTEQ"  -> <<"LessThanOrEqual">>
      [] OTHER                -> <<>>

\* Parser::parse_condition
parse_condition(p) ==
    With(parse_expression(p), LAMBDA l :
    With(comparator_of(l.p.current_token.token_type), LAMBDA comparator :
    IF l.p.panic # "" THEN Parsed(l.p, Nil)
    ELSE IF comparator = <<>>
    THEN ParsePanic(l.p, "Expected comparison operator to evaluate to bool")
    ELSE With(With(process_next(l.p), parse_expression), LAMBDA r :
         Parsed(r.p, Condition(l.node, comparator[1], r.node)))))

RECURSIVE parse_statement(_)
RECURSIVE parse_if(_)
RECURSIVE parse_while_loop(_, _)
RECURSIVE parse_if_loop(_, _, _, _)
RECURSIVE parse_program_loop(_, _)

\* the loop of the WHILE arm: `while !self.check_token(&TokenType::END)`
parse_while_loop(p, statements) ==
    IF p.panic # "" \/ check_token(p, "END")
    THEN [p |-> p, statements |-> statements]
    ELSE With(parse_statement(p), LAMBDA r :
         parse_while_loop(r.p, Append(statements, r.node)))

\* the loop of parse_if: `while !self.check_token(&TokenType::END)`
parse_if_loop(p, current_token_type, statements, other) ==
    IF p.panic # "" \/ check_token(p, "END")
    THEN [p |-> p, statements |-> statements, other |-> other]
    ELSE IF check_token(p, "ELSEIF") \/ check_token(p, "ELSE")
         THEN IF current_token_type = "ELSE"
              THEN [p |-> [p EXCEPT !.panic = "Invalid elseif"],
                    statements |-> statements, other |-> other]
              ELSE With(parse_if(p), LAMBDA r :
                   parse_if_loop(r.p, current_token_type, statements, <<r.node>>))
         ELSE With(parse_statement(p), LAMBDA r :
              parse_if_loop(r.p, current_token_type,
                            Append(statements, r.node), other))

\* the condition of parse_if: `if current_token_type != TokenType::ELSE`
parse_if_condition(p, current_token_type) ==
    IF current_token_type # "ELSE"
    THEN With(parse_condition(p), LAMBDA r :
         Parsed(match_token(r.p, "THEN"), <<r.node>>))
    ELSE Parsed(p, <<>>)

\* a parse_if whose every clause takes an END of its own
parse_if_end_every_clause(current_token_type, condition, body) ==
    With(match_token(body.p, "END"), LAMBDA p :
    IF p.panic # "" THEN Parsed(p, Nil)
    ELSE CASE current_token_type = "IF" ->
                Parsed(p, IfStatementIf(condition[1], Block(body.statements),
                                        body.other))
           [] current_token_type = "ELSEIF" ->
                Parsed(p, IfStatementElseIf(condition[1], Block(body.statements),
                                            body.other))
           [] current_token_type = "ELSE" ->
                Parsed(p, IfStatementElse(Block(body.statements)))
           [] OTHER -> ParsePanic(p, "Invalid IF statement constructed"))

\* the end of parse_if: the END of the first IF, and the node
parse_if_end(current_token_type, condition, body) ==
    With(IF current_token_type = "IF" THEN match_token(body.p, "END")
         ELSE body.p, LAMBDA p :
    IF p.panic # "" THEN Parsed(p, Nil)
    ELSE CASE current_token_type = "IF" ->
                Parsed(p, IfStatementIf(condition[1], Block(body.statements),
                                        body.other))
           [] current_token_type = "ELSEIF" ->
                Parsed(p, IfStatementElseIf(condition[1], Block(body.statements),
                                            body.other))
           [] current_token_type = "ELSE" ->
                Parsed(p, IfStatementElse(Block(body.statements)))
           [] OTHER -> ParsePanic(p, "Invalid IF statement constructed"))

\* Parser::parse_if
parse_if(p) ==
    With(p.current_token.token_type, LAMBDA current_token_type :
    With(process_next(p), LAMBDA next :
    With(parse_if_condition(next, current_token_type), LAMBDA c :
    With(parse_if_loop(c.p, current_token_type, <<>>, <<>>), LAMBDA body :
    parse_if_end(current_token_type, c.node, body)))))

\* the arms LET and IDENT of parse_statement after the name:
\* `=`, the expression and `;`
parse_assignment(p, ident, kind) ==
    With(match_token(p, "IDENT"), LAMBDA after_ident :
    With(match_token(after_ident, "EQ"), LAMBDA after_eq :
    With(parse_expression(after_eq), LAMBDA r :
    Parsed(match_token(r.p, "SEMICOLON"),
           IF kind = "Let" THEN StatementLet(ident, r.node)
           ELSE StatementAssignment(ident, r.node)))))

\* Parser::parse_statement
parse_statement(p) ==
    IF p.panic # "" THEN Parsed(p, Nil)
    ELSE
    CASE check_token(p, "PRINT") ->
           With(With(process_next(p), parse_expression), LAMBDA r :
           Parsed(match_token(r.p, "SEMICOLON"), StatementPrint(r.node)))
      [] check_token(p, "LET") \/ check_token(p, "IDENT") ->
           With(IF check_token(p, "LET") THEN process_next(p) ELSE p, LAMBDA p1 :
           parse_assignment(p1, p1.current_token.token_text,
                            IF check_token(p, "LET") THEN "Let" ELSE "Assignment"))
      [] check_token(p, "IF") ->
           With(parse_if(p), LAMBDA r : Parsed(r.p, StatementIf(r.node)))
      [] check_token(p, "WHILE") ->
           With(With(process_next(p), parse_condition), LAMBDA c :
           With(match_token(c.p, "THEN"), LAMBDA after_then :
           With(parse_while_loop(after_then, <<>>), LAMBDA body :
           Parsed(match_token(body.p, "END"),
                  StatementWhile(c.node, Block(body.statements))))))
      [] OTHER -> ParsePanic(p, "Invalid statement found")

\* the loop of parse_program: `while !self.check_token(&TokenType::EOF)`
parse_program_loop(p, statements) ==
    IF p.panic # "" \/ check_token(p, "EOF")
    THEN [p |-> p, statements |-> statements]
    ELSE With(parse_statement(p), LAMBDA r :
         parse_program_loop(r.p, Append(statements, r.node)))

\* Parser::parse_program
parse_program(p) ==
    With(parse_program_loop(p, <<>>), LAMBDA r : Parsed(r.p, Block(r.statements)))

\* Parser::parse
parse(p) ==
    With(With(With(process_next(p), process_next), parse_program), LAMBDA r :
    Parsed(r.p, AbstractSyntaxTree(r.node)))

(***************************************************************************)
(* f32.  A value is exact: NaN, an infinity, or the signed fraction        *)
(* num/den in lowest terms (the sign is kept for zero, as IEEE 754 does).  *)
(* The rounding of f32 to 24 bits is not modelled: the programs checked    *)
(* stay among the values f32 holds exactly.                                *)
(***************************************************************************)
RECURSIVE Gcd(_, _)
Gcd(a, b) == IF b = 0 THEN a ELSE Gcd(b, a % b)

RECURSIVE Pow10(_)
Pow10(n) == IF n = 0 THEN 1 ELSE 10 * Pow10(n - 1)

F32NaN == [k |-> "nan", neg |-> FALSE, num |-> 0, den |-> 1]

F32Inf(neg) == [k |-> "inf", neg |-> neg, num |-> 0, den |-> 1]

F32Fin(neg, num, den) ==
    LET g == Gcd(num, den) IN
    [k |-> "fin", neg |-> neg, num |-> num \div g, den |-> den \div g]

\* the signed numerator of a finite value
Signed(a) == IF a.neg THEN 0 - a.num ELSE a.num

Abs(n) == IF n < 0 THEN 0 - n ELSE n

\* f32 `-a`
f32_neg(a) == IF a.k = "nan" THEN a ELSE [a EXCEPT !.neg = ~a.neg]

\* f32 `a + b`
f32_add(a, b) ==
    CASE a.k = "nan" \/ b.k = "nan" -> F32NaN
      [] a.k = "inf" /\ b.k = "inf" -> IF a.neg = b.neg THEN a ELSE F32NaN
      [] a.k = "inf" -> a
      [] b.k = "inf" -> b
      [] OTHER ->
           LET n == Signed(a) * b.den + Signed(b) * a.den IN
           IF n = 0 THEN F32Fin(a.neg /\ b.neg, 0, 1)
           ELSE F32Fin(n < 0, Abs(n), a.den * b.den)

\* f32 `a - b`
f32_sub(a, b) == f32_add(a, f32_neg(b))

\* f32 `a * b`
f32_mul(a, b) ==
    LET neg == (a.neg # b.neg)
        zero(x) == x.k = "fin" /\ x.num = 0
    IN  CASE a.k = "nan" \/ b.k = "nan" -> F32NaN
          [] (a.k = "inf" /\ zero(b)) \/ (zero(a) /\ b.k = "inf") -> F32NaN
          [] a.k = "inf" \/ b.k = "inf" -> F32Inf(neg)
          [] OTHER -> F32Fin(neg, a.num * b.num, a.den * b.den)

\* f32 `a / b`
f32_div(a, b) ==
    LET neg == (a.neg # b.neg)
        zero(x) == x.k = "fin" /\ x.num = 0
    IN  CASE a.k = "nan" \/ b.k = "nan" -> F32NaN
          [] a.k = "inf" /\ b.k = "inf" -> F32NaN
          [] zero(a) /\ zero(b) -> F32NaN
          [] a.k = "inf" -> F32Inf(neg)
          [] b.k = "inf" -> F32Fin(neg, 0, 1)
          [] zero(b) -> F32Inf(neg)
          [] OTHER -> F32Fin(neg, a.num * b.den, a.den * b.num)

\* f32 `a < b`
f32_lt(a, b) ==
    CASE a.k = "nan" \/ b.k = "nan" -> FALSE
      [] a.k = "inf" -> a.neg /\ ~(b.k = "inf" /\ b.neg)
      [] b.k = "inf" -> ~b.neg
      [] OTHER -> Signed(a) * b.den < Signed(b) * a.den

\* f32 `a == b`
f32_eq(a, b) ==
    CASE a.k = "nan" \/ b.k = "nan" -> FALSE
      [] a.k = "inf" \/ b.k = "inf" -> a.k = b.k /\ a.neg = b.neg
      [] OTHER -> Signed(a) * b.den = Signed(b) * a.den

\* f32 `a != b`
f32_ne(a, b) == ~f32_eq(a, b)

\* f32 `a > b`
f32_gt(a, b) == f32_lt(b, a)

\* f32 `a <= b`
f32_le(a, b) == f32_lt(a, b) \/ f32_eq(a, b)

\* f32 `a >= b`
f32_ge(a, b) == f32_lt(b, a) \/ f32_eq(a, b)

\* the value of one decimal digit character
digit_value(c) == (CHOOSE i \in DOMAIN DigitChars : DigitChars[i] = c) - 1

\* the value of a run of decimal digits (0 for the empty run)
RECURSIVE digits_value(_, _)
digits_value(acc, digits) ==
    IF digits = <<>> THEN acc
    ELSE digits_value(acc * 10 + digit_value(Head(digits)), Tail(digits))

\* the decimal digits of a natural number, most significant first
RECURSIVE nat_digits(_)
nat_digits(n) ==
    IF n < 10 THEN <<DigitChars[n + 1]>>
    ELSE Append(nat_digits(n \div 10), DigitChars[(n % 10) + 1])

\* the most fractional digits to_string writes in this model
MaxFracDigits == 8

\* the digits after the decimal point of rem/den, rem < den
RECURSIVE frac_digits(_, _, _)
frac_digits(rem, den, left) ==
    IF rem = 0 \/ left = 0 THEN <<>>
    ELSE <<DigitChars[((rem * 10) \div den) + 1]>>
         \o frac_digits((rem * 10) % den, den, left - 1)

\* <f32 as Display>::fmt, used by f32::to_string
f32_to_string(a) ==
    CASE a.k = "nan" -> <<"N", "a", "N">>
      [] a.k = "inf" -> (IF a.neg THEN <<"-">> ELSE <<>>) \o <<"i", "n", "f">>
      [] OTHER ->
           With(frac_digits(a.num % a.den, a.den, MaxFracDigits), LAMBDA frac :
           (IF a.neg THEN <<"-">> ELSE <<>>) \o nat_digits(a.num \div a.den)
           \o (IF frac = <<>> THEN <<>> ELSE <<".">> \o frac))

ParseOk(value) == [ok |-> TRUE, value |-> value, err |-> ""]

ParseErr(err) == [ok |-> FALSE, value |-> F32NaN, err |-> err]

\* the exponent of a decimal, after its "e": [sign] digits, nothing left over
parse_exponent(neg, mantissa, scale, s) ==
    With(IF is_next_check(s, "-") \/ is_next_check(s, "+") THEN Tail(s) ELSE s,
         LAMBDA digits :
    With(take_digits(<<>>, digits), LAMBDA exp :
    IF exp.value = <<>> \/ exp.input # <<>>
    THEN ParseErr("invalid float literal")
    ELSE With(digits_value(0, exp.value), LAMBDA e :
         IF is_next_check(s, "-")
         THEN ParseOk(F32Fin(neg, mantissa, Pow10(scale + e)))
         ELSE ParseOk(F32Fin(neg, mantissa * Pow10(e), Pow10(scale))))))

\* the decimal part of <f32 as FromStr>::from_str, after the sign:
\* digits [ "." digits ] [ ("e"|"E") [sign] digits ], at least one digit
\* in the mantissa, nothing left over
parse_decimal(neg, s) ==
    With(take_digits(<<>>, s), LAMBDA whole :
    With(IF is_next_check(whole.input, ".")
         THEN take_digits(<<>>, Tail(whole.input))
         ELSE [value |-> <<>>, input |-> whole.input], LAMBDA frac :
    IF Len(whole.value) + Len(frac.value) = 0
    THEN ParseErr("invalid float literal")
    ELSE IF frac.input = <<>>
    THEN ParseOk(F32Fin(neg, digits_value(0, whole.value \o frac.value),
                        Pow10(Len(frac.value))))
    ELSE IF Head(frac.input) \notin {"e", "E"}
    THEN ParseErr("invalid float literal")
    ELSE parse_exponent(neg, digits_value(0, whole.value \o frac.value),
                        Len(frac.value), Tail(frac.input))))

\* <f32 as FromStr>::from_str, what `.parse()` is for an f32 target
parse_f32(s) ==
    IF s = <<>> THEN ParseErr("cannot parse float from empty string")
    ELSE
      LET neg == Head(s) = "-"
          body == IF Head(s) \in {"-", "+"} THEN Tail(s) ELSE s
          lower == to_lowercase(body)
      IN  CASE lower = <<"i","n","f">> -> ParseOk(F32Inf(neg))
            [] lower = <<"i","n","f","i","n","i","t","y">> -> ParseOk(F32Inf(neg))
            [] lower = <<"n","a","n">> -> ParseOk(F32NaN)
            [] OTHER -> parse_decimal(neg, body)

\* <String as FromStr>::from_str, what `.parse()` is for a String target:
\* it never fails and returns the text itself
parse_String(s) == [ok |-> TRUE, value |-> s, err |-> ""]

(***************************************************************************)
(* symbol.rs.  The HashMap<String, Symbol> maps a name to the Symbol of    *)
(* that name, so it is the set of its keys.                                *)
(***************************************************************************)
\* SymbolTable::new
SymbolTableNew == {}

\* SymbolTable::define_symbol
define_symbol(symbols, name) == symbols \cup {name}

\* SymbolTable::lookup: Some(symbol) is <<name>>, None is <<>>
lookup(symbols, key) == IF key \in symbols THEN <<key>> ELSE <<>>

\* the block SymbolTable::process_statement goes into for Statement::If
SymbolTable_if_block(if_statement) ==
    CASE if_statement.kind = "If"     -> if_statement.block
      [] if_statement.kind = "ElseIf" -> if_statement.block
      [] if_statement.kind = "Else"   -> if_statement.block

\* a resolver with block scoping: the bodies of `if` and `while` are not
\* gone into, so what they declare is not registered
SymbolTable_process_statement_top_level(symbols, statement) ==
    CASE statement.kind = "Let" ->
           [symbols |-> define_symbol(symbols, statement.symbol),
            panic |-> "", arg |-> <<>>, block |-> <<>>]
      [] statement.kind = "Assignment" ->
           IF lookup(symbols, statement.symbol) = <<>>
           THEN [symbols |-> symbols,
                 panic |-> "Referenced symbol before assignment",
                 arg |-> statement.symbol, block |-> <<>>]
           ELSE [symbols |-> symbols, panic |-> "", arg |-> <<>>,
                 block |-> <<>>]
      [] OTHER ->
           [symbols |-> symbols, panic |-> "", arg |-> <<>>, block |-> <<>>]

\* SymbolTable::process_statement: the table after it, the panic, and the
\* block it hands to process_block
SymbolTable_process_statement(symbols, statement) ==
    CASE statement.kind = "Let" ->
           [symbols |-> define_symbol(symbols, statement.symbol),
            panic |-> "", arg |-> <<>>, block |-> <<>>]
      [] statement.kind = "Assignment" ->
           IF lookup(symbols, statement.symbol) = <<>>
           THEN [symbols |-> symbols,
                 panic |-> "Referenced symbol before assignment",
                 arg |-> statement.symbol, block |-> <<>>]
           ELSE [symbols |-> symbols, panic |-> "", arg |-> <<>>,
                 block |-> <<>>]
      [] statement.kind = "If" ->
           [symbols |-> symbols, panic |-> "", arg |-> <<>>,
            block |-> SymbolTable_if_block(statement.if_statement)]
      [] statement.kind = "While" ->
           [symbols |-> symbols, panic |-> "", arg |-> <<>>,
            block |-> statement.block]
      [] OTHER ->
           [symbols |-> symbols, panic |-> "", arg |-> <<>>, block |-> <<>>]

(***************************************************************************)
(* intr.rs.  global_scope is a function from the names stored to their     *)
(* text.  An evaluation returns its value, the panic and the `{}` of the   *)
(* panic's message.                                                        *)
(***************************************************************************)
\* HashMap::new
HashMapNew == [name \in {} |-> <<>>]

\* HashMap::insert
insert(map, key, value) ==
    [name \in DOMAIN map \cup {key} |-> IF name = key THEN value ELSE map[name]]

Value(value) == [value |-> value, panic |-> "", arg |-> <<>>]

Panic(message, arg) == [value |-> <<>>, panic |-> message, arg |-> arg]

\* Interpreter::process_literal
process_literal(literal) ==
    CASE literal.kind = "String" -> literal.s
      [] literal.kind = "Number" -> literal.s

\* a read that yields the empty text for a name without an entry
process_ident_or_default(symbol, global_scope) ==
    IF symbol \in DOMAIN global_scope
    THEN Value(global_scope[symbol])
    ELSE Value(<<>>)

\* the arm Expression::Ident of Interpreter::process_expression
process_ident(symbol, global_scope) ==
    IF symbol \in DOMAIN global_scope
    THEN Value(global_scope[symbol])
    ELSE Panic("Attempted to use a variable before assignment", symbol)

\* the arithmetic of Interpreter::process_binary_op
apply_operator(operator, left_expression, right_expression) ==
    CASE operator = "Plus"    -> f32_add(left_expression, right_expression)
      [] operator = "Minus"   -> f32_sub(left_expression, right_expression)
      [] operator = "Times"   -> f32_mul(left_expression, right_expression)
      [] operator = "Divides" -> f32_div(left_expression, right_expression)

\* a unary arm that parses its term as a number and applies the sign
process_unary_op_signed(operator, term) ==
    With(parse_f32(term), LAMBDA number :
    IF number.ok
    THEN Value(f32_to_string(IF operator = "Minus" THEN f32_neg(number.value)
                             ELSE number.value))
    ELSE Panic("Invalid number used in binary op", number.err))

\* the arm Expression::UnaryOp of Interpreter::process_expression, on the
\* text its term evaluated to: the `.parse()` there has the String target
process_unary_op(operator, term) ==
    With(parse_String(term), LAMBDA number :
    IF number.ok THEN Value(number.value)
    ELSE Panic("Invalid number used in binary op", number.err))

RECURSIVE process_expression(_, _)

\* `match self.process_expression(..).parse() { Ok(number) => number,
\*  Err(err) => panic!(..) }` with the f32 target: value is the f32
parse_number(expression, global_scope) ==
    With(process_expression(expression, global_scope), LAMBDA e :
    IF e.panic # "" THEN e
    ELSE With(parse_f32(e.value), LAMBDA number :
         IF number.ok THEN Value(number.value)
         ELSE Panic("Invalid number used in binary op", number.err)))

\* Interpreter::process_binary_op
process_binary_op(binary_op, global_scope) ==
    With(parse_number(binary_op.left_term, global_scope),
         LAMBDA left_expression :
    IF left_expression.panic # "" THEN left_expression
    ELSE With(parse_number(binary_op.right_term, global_scope),
              LAMBDA right_expression :
         IF right_expression.panic # "" THEN right_expression
         ELSE Value(With(apply_operator(binary_op.operator,
                             left_expression.value, right_expression.value),
                         f32_to_string))))

\* the arm Expression::UnaryOp of Interpreter::process_expression
process_expression_unary(un_op, global_scope) ==
    With(process_expression(un_op.term, global_scope), LAMBDA term :
    IF term.panic # "" THEN term
    ELSE process_unary_op(un_op.operator, term.value))

\* Interpreter::process_expression
process_expression(expression, global_scope) ==
    CASE expression.kind = "Literal" -> Value(process_literal(expression.literal))
      [] expression.kind = "BinaryOp" -> process_binary_op(expression, global_scope)
      [] expression.kind = "UnaryOp" ->
           process_expression_unary(expression, global_scope)
      [] expression.kind = "Ident" -> process_ident(expression.symbol, global_scope)

\* the match on the comparator of Interpreter::process_condition
apply_comparator(comparator, left_expression, right_expression) ==
    CASE comparator = "Equal" -> f32_eq(left_expression, right_expression)
      [] comparator = "NotEqual" -> f32_ne(left_expression, right_expression)
      [] comparator = "GreaterThan" -> f32_gt(left_expression, right_expression)
      [] comparator = "GreaterThanOrEqual" ->
           f32_ge(left_expression, right_expression)
      [] comparator = "LessThan" -> f32_lt(left_expression, right_expression)
      [] comparator = "LessThanOrEqual" ->
           f32_le(left_expression, right_expression)

\* Interpreter::process_condition: value is the bool
process_condition(condition, global_scope) ==
    With(parse_number(condition.left_expression, global_scope),
         LAMBDA left_expression :
    IF left_expression.panic # "" THEN [left_expression EXCEPT !.value = FALSE]
    ELSE With(parse_number(condition.right_expression, global_scope),
              LAMBDA right_expression :
         IF right_expression.panic # ""
         THEN [right_expression EXCEPT !.value = FALSE]
         ELSE Value(apply_comparator(condition.comparator,
                        left_expression.value, right_expression.value))))

\* a process_assignment that writes the store before the check of its target
process_assignment_write_first(symbols, global_scope, ident, expression) ==
    With(process_expression(expression, global_scope), LAMBDA e :
    With(lookup(symbols, ident), LAMBDA symbol :
    IF e.panic # ""
    THEN [global_scope |-> global_scope, panic |-> e.panic, arg |-> e.arg]
    ELSE IF symbol = <<>>
    THEN [global_scope |-> insert(global_scope, ident, e.value),
          panic |-> "Attempted to assign to an unidentified variable",
          arg |-> ident]
    ELSE [global_scope |-> insert(global_scope, symbol[1], e.value),
          panic |-> "", arg |-> <<>>]))

\* Interpreter::process_assignment: the global_scope after it
process_assignment(symbols, global_scope, ident, expression) ==
    With(process_expression(expression, global_scope), LAMBDA e :
    With(lookup(symbols, ident), LAMBDA symbol :
    IF e.panic # ""
    THEN [global_scope |-> global_scope, panic |-> e.panic, arg |-> e.arg]
    ELSE IF symbol = <<>>
    THEN [global_scope |-> global_scope,
          panic |-> "Attempted to assign to an unidentified variable",
          arg |-> ident]
    ELSE [global_scope |-> insert(global_scope, symbol[1], e.value),
          panic |-> "", arg |-> <<>>]))

RECURSIVE process_else_if(_, _)

\* process_if evaluating the conditions of the clauses after it as well
process_if_every_condition(condition, block, other, global_scope) ==
    With(process_condition(condition, global_scope), LAMBDA c :
    IF c.panic # "" THEN [block |-> <<>>, panic |-> c.panic, arg |-> c.arg]
    ELSE IF other # <<>>
    THEN With(process_else_if(other[1], global_scope), LAMBDA o :
         IF o.panic # "" \/ ~c.value THEN o
         ELSE [block |-> <<block>>, panic |-> "", arg |-> <<>>])
    ELSE IF c.value THEN [block |-> <<block>>, panic |-> "", arg |-> <<>>]
    ELSE [block |-> <<>>, panic |-> "", arg |-> <<>>])

\* Interpreter::process_if: the block it hands to process_block, if any
process_if(condition, block, other, global_scope) ==
    With(process_condition(condition, global_scope), LAMBDA c :
    IF c.panic # "" THEN [block |-> <<>>, panic |-> c.panic, arg |-> c.arg]
    ELSE IF c.value THEN [block |-> <<block>>, panic |-> "", arg |-> <<>>]
    ELSE IF other # <<>> THEN process_else_if(other[1], global_scope)
    ELSE [block |-> <<>>, panic |-> "", arg |-> <<>>])

\* Interpreter::process_else_if, and the same match in the arm
\* Statement::If of process_statement: the block handed to process_block
process_else_if(else_if, global_scope) ==
    IF else_if.kind \in {"If", "ElseIf"}
    THEN process_if(else_if.condition, else_if.block, else_if.other, global_scope)
    ELSE [block |-> <<else_if.block>>, panic |-> "", arg |-> <<>>]

\* the arm with an `if` in the place of its `while`: the block runs once
process_while_once(statement, global_scope) ==
    With(process_condition(statement.condition, global_scope), LAMBDA c :
    IF c.panic # "" THEN [next |-> <<>>, panic |-> c.panic, arg |-> c.arg]
    ELSE IF c.value
    THEN [next |-> statement.block, panic |-> "", arg |-> <<>>]
    ELSE [next |-> <<>>, panic |-> "", arg |-> <<>>])

\* the arm Statement::While of Interpreter::process_statement: what runs
\* next is the block and then the `while` again, or nothing
process_while(statement, global_scope) ==
    With(process_condition(statement.condition, global_scope), LAMBDA c :
    IF c.panic # "" THEN [next |-> <<>>, panic |-> c.panic, arg |-> c.arg]
    ELSE IF c.value
    THEN [next |-> statement.block \o <<statement>>, panic |-> "", arg |-> <<>>]
    ELSE [next |-> <<>>, panic |-> "", arg |-> <<>>])

\* Interpreter::process_statement: the global_scope after it, the lines it
\* prints, the statements it runs next, the panic
Interpreter_process_statement(statement, symbols, global_scope) ==
    CASE statement.kind = "Print" ->
           With(process_expression(statement.expression, global_scope),
                LAMBDA e :
           [global_scope |-> global_scope,
            println |-> IF e.panic = "" THEN <<e.value>> ELSE <<>>,
            next |-> <<>>, panic |-> e.panic, arg |-> e.arg])
      [] statement.kind \in {"Let", "Assignment"} ->
           With(process_assignment(symbols, global_scope, statement.symbol,
                                   statement.expression), LAMBDA a :
           [global_scope |-> a.global_scope, println |-> <<>>, next |-> <<>>,
            panic |-> a.panic, arg |-> a.arg])
      [] statement.kind = "If" ->
           With(process_else_if(statement.if_statement, global_scope), LAMBDA i :
           [global_scope |-> global_scope, println |-> <<>>,
            next |-> IF i.block = <<>> THEN <<>> ELSE i.block[1],
            panic |-> i.panic, arg |-> i.arg])
      [] statement.kind = "While" ->
           With(process_while(statement, global_scope), LAMBDA w :
           [global_scope |-> global_scope, println |-> <<>>, next |-> w.next,
            panic |-> w.panic, arg |-> w.arg])

(***************************************************************************)
(* Source texts.  A text is written as its lexemes, joined by one space.   *)
(***************************************************************************)
RECURSIVE Join(_)
Join(lexemes) ==
    IF lexemes = <<>> THEN <<>>
    ELSE IF Len(lexemes) = 1 THEN lexemes[1]
    ELSE lexemes[1] \o <<" ">> \o Join(Tail(lexemes))

kLet == <<"l","e","t">>
kPrint == <<"p","r","i","n","t">>
kIf == <<"i","f">>
kThen == <<"t","h","e","n">>
kElseIf == <<"e","l","s","e","i","f">>
kElse == <<"e","l","s","e">>
kWhile == <<"w","h","i","l","e">>
kEnd == <<"e","n","d">>

\* the decimal numeral of a natural number, as a programmer writes it
RECURSIVE Numeral(_)
Numeral(n) ==
    IF n < 10 THEN <<DigitChars[n + 1]>>
    ELSE Numeral(n \div 10) \o <<DigitChars[(n % 10) + 1]>>

\* the decimal numeral of an integer: "-" and the numeral of its magnitude
IntegerNumeral(n) == IF n < 0 THEN <<"-">> \o Numeral(0 - n) ELSE Numeral(n)

\* simple statements
Let(name, expression) == Join(<<kLet, name, <<"=">>, expression, <<";">> >>)
Assign(name, expression) == Join(<<name, <<"=">>, expression, <<";">> >>)
PrintOf(expression) == Join(<<kPrint, expression, <<";">> >>)
StringLiteral(text) == <<"\"">> \o text \o <<"\"">>

Print1 == PrintOf(<<"1">>)
\* the line `print 1;` prints
Print1Line == <<"1">>
LetX1 == Let(<<"x">>, <<"1">>)
AssignX2 == Assign(<<"x">>, <<"2">>)
PrintX == PrintOf(<<"x">>)
LetXXPlus1 == Let(<<"x">>, Join(<<<<"x">>, <<"+">>, <<"1">> >>))
PrintUnclosed == Join(<<kPrint, <<"\"", "a", "b", "c">> >>)
PrintNothing == PrintOf(<<>>)

\* conditions
Cond(left, comparator, right) == Join(<<left, comparator, right>>)
OneIsOne == Cond(<<"1">>, <<"=", "=">>, <<"1">>)
OneIsTwo == Cond(<<"1">>, <<"=", "=">>, <<"2">>)
XIsOne == Cond(<<"x">>, <<"=", "=">>, <<"1">>)

\* compound statements
IfEnd(c, a) == Join(<<kIf, c, kThen, a, kEnd>>)
IfElseEnd(c, a, b) == Join(<<kIf, c, kThen, a, kElse, b, kEnd>>)
IfElseIfEnd(c, a, d, b) == Join(<<kIf, c, kThen, a, kElseIf, d, kThen, b, kEnd>>)
IfElseIfElseEnd(c, a, d, b, e) ==
    Join(<<kIf, c, kThen, a, kElseIf, d, kThen, b, kElse, e, kEnd>>)
WhileEnd(c, a) == Join(<<kWhile, c, kThen, a, kEnd>>)

\* every sequence of at most n texts of the set
RECURSIVE SeqsUpTo(_, _)
SeqsUpTo(set, n) ==
    IF n = 0 THEN {<<>>}
    ELSE With(SeqsUpTo(set, n - 1), LAMBDA shorter :
         shorter \cup {Append(q, t) : q \in shorter, t \in set})

\* the most statements of a straight-line program
MaxStatements == 3

StraightStatements ==
    {Print1, LetX1, AssignX2, PrintX, LetXXPlus1, PrintUnclosed, PrintNothing}

\* straight-line programs
StraightSources == {Join(q) : q \in SeqsUpTo(StraightStatements, MaxStatements)}

BodyStatements == {Print1, LetX1, AssignX2, PrintX}

Conds == {OneIsOne, OneIsTwo, XIsOne}

\* one if/elseif/else chain or one while
Chains ==
    {IfEnd(c, a) : c \in Conds, a \in BodyStatements}
    \cup {IfElseEnd(c, a, b) : c \in Conds, a \in BodyStatements,
                               b \in BodyStatements}
    \cup {IfElseIfEnd(c, a, d, b) : c \in Conds, d \in Conds,
              a \in {Print1}, b \in BodyStatements}
    \cup {IfElseIfElseEnd(c, a, d, b, e) : c \in Conds, d \in Conds,
              a \in {Print1}, b \in BodyStatements, e \in BodyStatements}
    \cup {WhileEnd(c, a) : c \in Conds, a \in BodyStatements}

\* programs with one chain, after `pre` and before `post`
ChainSources ==
    {Join(pre \o <<chain>> \o post) :
        pre \in {<<>>, <<LetX1>>}, chain \in Chains,
        post \in {<<>>, <<AssignX2>>, <<PrintX>>}}

\* the largest operand written in a comparison or an arithmetic expression
MaxOperand == 4

Comparators ==
    {<<"=", "=">>, <<"!", "=">>, <<"<">>, <<"<", "=">>, <<">">>, <<">", "=">>}

\* `if a <comparator> b then print 1; end`
CompareSrc(a, comparator, b) ==
    IfEnd(Cond(Numeral(a), comparator, Numeral(b)), Print1)

CompareSources ==
    {CompareSrc(a, c, b) : a \in 0..MaxOperand, c \in Comparators,
                           b \in 0..MaxOperand}

\* `print a <first> b <second> c;`
ArithSrc(a, first, b, second, c) ==
    PrintOf(Join(<<Numeral(a), first, Numeral(b), second, Numeral(c)>>))

ArithSources ==
    {ArithSrc(a, <<"+">>, b, <<"*">>, c) :
        a \in 0..MaxOperand, b \in 0..MaxOperand, c \in 0..MaxOperand}
    \cup {ArithSrc(a, <<"-">>, b, <<"-">>, c) :
        a \in 0..MaxOperand, b \in 0..MaxOperand, c \in 0..MaxOperand}
    \cup {ArithSrc(8, <<"-">>, 3, <<"-">>, 2)}

\* the largest N of the counting loop
MaxN == 3

\* `let i = 0; while i < N then print i; i = i + 1; end` and what follows it
WhileSrc(N, post) ==
    Join(<<Let(<<"i">>, <<"0">>),
           WhileEnd(Cond(<<"i">>, <<"<">>, Numeral(N)),
                    Join(<<PrintOf(<<"i">>),
                           Assign(<<"i">>, Join(<<<<"i">>, <<"+">>, <<"1">> >>))>>))>>
         \o post)

PrintI == PrintOf(<<"i">>)

WhileSources == {WhileSrc(N, post) : N \in 0..MaxN, post \in {<<>>, <<PrintI>>}}

\* a variable holding a string, used as an operand
StringValues == {StringLiteral(<<"a", "b", "c">>), StringLiteral(<<"5">>)}

StringOperandStatements ==
    {PrintOf(<<"-", "s">>), PrintOf(<<"+", "s">>),
     PrintOf(Join(<<<<"s">>, <<"+">>, <<"1">> >>)),
     PrintOf(Join(<<<<"1">>, <<"*">>, <<"s">> >>)),
     IfEnd(Cond(<<"s">>, <<"=", "=">>, <<"1">>), Print1),
     IfEnd(Cond(<<"1">>, <<"<">>, <<"s">>), Print1)}

StringSources ==
    {Join(<<Let(<<"s">>, v), t>>) : v \in StringValues,
                                     t \in StringOperandStatements}

\* the most `elseif` clauses of a written chain
MaxElseIfs == 1

\* the bodies written in the clauses of a chain: each a sequence of the
\* statements "print" (`print 1;`) and "let" (`let x = 1;`)
WrittenBodies == {<<>>, <<"print">>, <<"let", "print">>}

\* the text of a written body, statement by statement
BodyTexts(body) ==
    [i \in DOMAIN body |-> IF body[i] = "print" THEN Print1 ELSE LetX1]

\* the i-th clause with a condition: `if 1 == i then` or `elseif 1 == i then`
ClauseTexts(i, body) ==
    <<IF i = 1 THEN kIf ELSE kElseIf, Cond(<<"1">>, <<"=", "=">>, Numeral(i)), kThen>>
    \o BodyTexts(body)

\* the clauses with a condition, from the i-th on
RECURSIVE ClausesTexts(_, _)
ClausesTexts(i, bodies) ==
    IF i > Len(bodies) THEN <<>>
    ELSE ClauseTexts(i, bodies[i]) \o ClausesTexts(i + 1, bodies)

\* a written chain: the bodies of its `if` and `elseif` clauses, the body
\* of its `else` if it has one (`else_body` is <<>> or <<body>>), and what
\* is written between the last body and `end` (`extra`)
ChainSrc(bodies, else_body, extra, post) ==
    Join(ClausesTexts(1, bodies)
         \o (IF else_body = <<>> THEN <<>> ELSE <<kElse>> \o BodyTexts(else_body[1]))
         \o extra \o <<kEnd>> \o post)

\* the chains written: one `if`, up to MaxElseIfs `elseif`s, maybe an `else`
WrittenChains ==
    {<<bodies, else_body>> :
        bodies \in UNION {[1..n -> WrittenBodies] : n \in 1..(1 + MaxElseIfs)},
        else_body \in {<<>>} \cup {<<b>> : b \in WrittenBodies}}

\* well-formed chains, alone or followed by `print 1;`
GoodChainSources ==
    {ChainSrc(w[1], w[2], <<>>, post) : w \in WrittenChains,
                                        post \in {<<>>, <<Print1>>}}

\* a clause written after the `else` clause
ClausesAfterElse ==
    {<<kElse, Print1>>, <<kElseIf, OneIsTwo, kThen, Print1>>}

\* chains whose `else` clause is followed by another clause
BadChainSources ==
    {ChainSrc(w[1], w[2], extra, <<>>) :
        w \in {v \in WrittenChains : v[2] # <<>>}, extra \in ClausesAfterElse}

\* compound statements written lexeme by lexeme
kSemicolon == <<";">>
kEqEq == <<"=", "=">>
WhileLexemes ==
    <<kWhile, <<"1">>, kEqEq, <<"2">>, kThen, kPrint, <<"1">>, kSemicolon, kEnd>>
ChainLexemes ==
    <<kIf, <<"1">>, kEqEq, <<"1">>, kThen, kPrint, <<"1">>, kSemicolon,
      kElseIf, <<"1">>, kEqEq, <<"2">>, kThen, kLet, <<"x">>, <<"=">>, <<"1">>,
      kSemicolon, kElse, kPrint, <<"2">>, kSemicolon, kEnd>>
NestedLexemes ==
    <<kWhile, <<"1">>, kEqEq, <<"2">>, kThen,
      kIf, <<"1">>, kEqEq, <<"1">>, kThen, kPrint, <<"1">>, kSemicolon, kEnd,
      kEnd>>
CompoundLexemes == {WhileLexemes, ChainLexemes, NestedLexemes}

\* the tokens the grammar requires after a statement, a condition, a block
RequiredLexemes == {kSemicolon, kThen, kEnd}

\* the lexemes without the i-th
Without(lexemes, i) ==
    [j \in 1..(Len(lexemes) - 1) |-> IF j < i THEN lexemes[j] ELSE lexemes[j + 1]]

\* the compound statements, whole
CompleteSources == {Join(lexemes) : lexemes \in CompoundLexemes}

\* a compound statement with one required token left out
MissingSources ==
    UNION {{Join(Without(lexemes, i)) :
               i \in {j \in DOMAIN lexemes : lexemes[j] \in RequiredLexemes}} :
           lexemes \in CompoundLexemes}

\* a compound statement with one required token written as another
MismatchedSources ==
    UNION {{Join([lexemes EXCEPT ![i] = other]) :
               i \in {j \in DOMAIN lexemes : lexemes[j] \in RequiredLexemes
                                              /\ lexemes[j] # other}} :
           lexemes \in CompoundLexemes, other \in RequiredLexemes}

\* a compound statement cut short: the text ends before the statement does
TruncatedSources ==
    UNION {{Join(SubSeq(lexemes, 1, n)) : n \in 1..(Len(lexemes) - 1)} :
           lexemes \in CompoundLexemes}

\* simple statements written lexeme by lexeme
PrintLexemes == <<kPrint, <<"1">>, <<"+">>, <<"2">>, kSemicolon>>
LetLexemes == <<kLet, <<"x">>, <<"=">>, <<"1">>, kSemicolon>>
AssignLexemes == <<<<"x">>, <<"=">>, <<"-">>, <<"2">>, kSemicolon>>
StatementLexemes ==
    CompoundLexemes \cup {PrintLexemes, LetLexemes, AssignLexemes}

\* characters that start no token
IllegalChars == {"@", "$", "."}

\* the lexemes with one more after the first i
Inserted(lexemes, i, lexeme) ==
    SubSeq(lexemes, 1, i) \o <<lexeme>> \o SubSeq(lexemes, i + 1, Len(lexemes))

\* a statement with a character that starts no token written before it,
\* after it, or between two of its lexemes
IllegalSources ==
    UNION {{Join(Inserted(lexemes, i, <<c>>)) : i \in 0..Len(lexemes)} :
           lexemes \in StatementLexemes, c \in IllegalChars}

\* the signs written before an operand
Signs == {"+", "-"}

\* `print -n;`
SignedLiteralSrc(sign, n) == PrintOf(<<sign>> \o n)

\* `let x = n; print -x;`
SignedIdentSrc(sign, n) == Join(<<Let(<<"x">>, n), PrintOf(<<sign, "x">>)>>)

\* `print a - -b;`
SignedRightSrc(a, operator, sign, b) ==
    PrintOf(Join(<<Numeral(a), <<operator>>, <<sign>> \o Numeral(b)>>))

\* the numerals written after a sign
SignedNumerals == {Numeral(n) : n \in 0..(MaxOperand + 1)} \cup {<<"1", ".", "5", "0">>}

SignedSources ==
    {SignedLiteralSrc(sign, n) : sign \in Signs, n \in SignedNumerals}
    \cup {SignedIdentSrc(sign, n) : sign \in Signs, n \in SignedNumerals}
    \cup {SignedRightSrc(a, operator, sign, b) :
            a \in 0..MaxOperand, operator \in {"+", "-", "*"},
            sign \in Signs, b \in 0..MaxOperand}

\* declarations and assignments of x: with an expression that evaluates,
\* one that reads the name y that nothing declares, one with a string operand
LetZ1 == Let(<<"z">>, <<"1">>)
StoreStatements ==
    {LetX1, AssignX2,
     Let(<<"x">>, <<"y">>), Assign(<<"x">>, <<"y">>),
     Let(<<"x">>, Join(<<StringLiteral(<<"a">>), <<"-">>, <<"1">> >>)),
     Assign(<<"x">>, Join(<<<<"z">>, <<"+">>, <<"1">> >>))}

\* the statement after `let x = 1;`, after nothing or `let z = 1;`
StoreTopSrc(pre, statement) == Join(pre \o <<LetX1, statement>>)

\* the statement as the body of an `else` that runs
StoreElseSrc(pre, statement) ==
    Join(pre \o <<IfElseEnd(OneIsTwo, Print1, statement)>>)

StoreSources ==
    {StoreTopSrc(pre, statement) : pre \in {<<>>, <<LetZ1>>},
                                  statement \in StoreStatements}
    \cup {StoreElseSrc(pre, statement) : pre \in {<<>>, <<LetZ1>>},
                                         statement \in StoreStatements}

\* the most lexemes of a text written for the tokenizer
MaxLexemes == 2

\* lexemes of every kind of token, `<<`, a character that starts no token,
\* and the three lexical faults
Lexemes ==
    {<<"1", "2">>, <<"1", ".", "5">>, StringLiteral(<<"a", "b", "c">>),
     StringLiteral(<<>>), <<"x", "1">>, kLet, <<"E", "n", "d">>,
     <<"+">>, <<"-">>, <<"*">>, <<"/">>, <<"=">>, <<";">>, <<"<", "<">>, <<"@">>,
     <<"\"", "a", "b", "c">>, <<"1", ".">>, <<"!">>}
    \cup Comparators

\* what may follow the last lexeme of a text
TrailingWhitespace == {<<>>, <<" ", "\n">>}

\* texts of a few lexemes, with and without whitespace before the end
TokenSources ==
    {Join(q) \o w : q \in SeqsUpTo(Lexemes, MaxLexemes), w \in TrailingWhitespace}

Sources ==
    StraightSources \cup ChainSources \cup CompareSources \cup ArithSources
    \cup WhileSources \cup StringSources \cup TokenSources
    \cup GoodChainSources \cup BadChainSources
    \cup CompleteSources \cup MissingSources \cup MismatchedSources
    \cup TruncatedSources \cup IllegalSources \cup SignedSources
    \cup StoreSources

(***************************************************************************)
(* main.rs and Interpreter::interpret as a state machine                   *)
(***************************************************************************)
VARIABLES
    contents,       \* main.rs: the text of the file
    pc,             \* where Interpreter::interpret is
    parser,         \* the Parser and its Lexer
    ast,            \* the AbstractSyntaxTree parse() returned
    symbol_table,   \* Interpreter.symbol_table
    global_scope,   \* Interpreter.global_scope
    output,         \* the lines process_statement has printed
    panic,          \* the message of the panic that ended the run, or ""
    panic_arg,      \* what that message names
    symbol_todo,    \* the statements SymbolTable::process_block has yet to do
    interpreter_todo \* the statements Interpreter::process_block has yet to do

vars == <<contents, pc, parser, ast, symbol_table, global_scope, output,
          panic, panic_arg, symbol_todo, interpreter_todo>>

\* the most lines a run prints before the model stops following it
MaxOutput == 6

\* interpret with its last two calls exchanged: evaluation before resolution
interpret_order_evaluate_first == <<"parse", "process_block", "symbol_table">>

\* the calls of Interpreter::interpret, in the order it makes them
interpret_order == <<"parse", "symbol_table", "process_block">>

\* where interpret is after the call `stage` returns
after(stage) ==
    LET i == CHOOSE j \in DOMAIN interpret_order : interpret_order[j] = stage IN
    IF i = Len(interpret_order) THEN "done" ELSE interpret_order[i + 1]

Init ==
    /\ contents \in Sources
    /\ pc = interpret_order[1]
    /\ parser = ParserNew(contents)
    /\ ast = AbstractSyntaxTree(Block(<<>>))
    /\ symbol_table = SymbolTableNew
    /\ global_scope = HashMapNew
    /\ output = <<>>
    /\ panic = ""
    /\ panic_arg = <<>>
    /\ symbol_todo = <<>>
    /\ interpreter_todo = <<>>

\* `let mut ast = self.parser.parse();`
Parse ==
    /\ pc = "parse"
    /\ \E r \in {parse(parser)} :
       /\ parser' = r.p
       /\ IF r.p.panic # ""
          THEN /\ pc' = "panicked"
               /\ panic' = r.p.panic
               /\ UNCHANGED <<ast, symbol_todo, interpreter_todo>>
          ELSE /\ pc' = after("parse")
               /\ ast' = r.node
               /\ symbol_todo' = r.node.block
               /\ interpreter_todo' = r.node.block
               /\ UNCHANGED panic
    /\ UNCHANGED <<contents, symbol_table, global_scope, output, panic_arg>>

\* one statement of `self.symbol_table.process_abstract_syntax_tree(&mut ast);`
SymbolTableStatement ==
    /\ pc = "symbol_table"
    /\ symbol_todo # <<>>
    /\ \E r \in {SymbolTable_process_statement(symbol_table, Head(symbol_todo))} :
       /\ symbol_table' = r.symbols
       /\ IF r.panic # ""
          THEN /\ pc' = "panicked"
               /\ panic' = r.panic
               /\ panic_arg' = r.arg
               /\ UNCHANGED symbol_todo
          ELSE /\ symbol_todo' = r.block \o Tail(symbol_todo)
               /\ UNCHANGED <<pc, panic, panic_arg>>
    /\ UNCHANGED <<contents, parser, ast, global_scope, output, interpreter_todo>>

\* process_abstract_syntax_tree returns
SymbolTableReturn ==
    /\ pc = "symbol_table"
    /\ symbol_todo = <<>>
    /\ pc' = after("symbol_table")
    /\ UNCHANGED <<contents, parser, ast, symbol_table, global_scope, output,
                   panic, panic_arg, symbol_todo, interpreter_todo>>

\* one statement of `self.process_block(&ast.block);`
InterpreterStatement ==
    /\ pc = "process_block"
    /\ interpreter_todo # <<>>
    /\ Len(output) < MaxOutput
    /\ \E r \in {Interpreter_process_statement(Head(interpreter_todo),
                                                symbol_table, global_scope)} :
       /\ global_scope' = r.global_scope
       /\ output' = output \o r.println
       /\ IF r.panic # ""
          THEN /\ pc' = "panicked"
               /\ panic' = r.panic
               /\ panic_arg' = r.arg
               /\ UNCHANGED interpreter_todo
          ELSE /\ interpreter_todo' = r.next \o Tail(interpreter_todo)
               /\ UNCHANGED <<pc, panic, panic_arg>>
    /\ UNCHANGED <<contents, parser, ast, symbol_table, symbol_todo>>

\* process_block returns
InterpreterReturn ==
    /\ pc = "process_block"
    /\ interpreter_todo = <<>>
    /\ pc' = after("process_block")
    /\ UNCHANGED <<contents, parser, ast, symbol_table, global_scope, output,
                   panic, panic_arg, symbol_todo, interpreter_todo>>

Next ==
    \/ Parse
    \/ SymbolTableStatement
    \/ SymbolTableReturn
    \/ InterpreterStatement
    \/ InterpreterReturn

Spec == Init /\ [][Next]_vars

\* the run goes on while it can: the program is one sequential thread
FairSpec == Spec /\ WF_vars(Next)

(***************************************************************************)
(* The tokenizer on its own: a Parser on a text whose process_next is      *)
(* called again and again, as parse() and the parse functions call it.     *)
(* parser.next_token is the token the last get_token returned.             *)
(***************************************************************************)
LexerInit ==
    /\ contents \in Sources
    /\ pc = "process_next"
    /\ parser = ParserNew(contents)
    /\ ast = AbstractSyntaxTree(Block(<<>>))
    /\ symbol_table = SymbolTableNew
    /\ global_scope = HashMapNew
    /\ output = <<>>
    /\ panic = ""
    /\ panic_arg = <<>>
    /\ symbol_todo = <<>>
    /\ interpreter_todo = <<>>

\* `self.process_next();`
ProcessNext ==
    /\ pc = "process_next"
    /\ \E p \in {process_next(parser)} :
       /\ parser' = p
       /\ panic' = p.panic
       /\ pc' = IF p.panic # "" THEN "panicked" ELSE pc
    /\ UNCHANGED <<contents, ast, symbol_table, global_scope, output, panic_arg,
                   symbol_todo, interpreter_todo>>

LexerNext == ProcessNext

LexerSpec == LexerInit /\ [][LexerNext]_vars

(***************************************************************************)
(* The vocabulary of the properties: a program read in source order.       *)
(***************************************************************************)
\* the names an expression reads
RECURSIVE Idents(_)
Idents(expression) ==
    CASE expression.kind = "Ident" -> {expression.symbol}
      [] expression.kind = "BinaryOp" ->
           Idents(expression.left_term) \cup Idents(expression.right_term)
      [] expression.kind = "UnaryOp" -> Idents(expression.term)
      [] OTHER -> {}

\* the names a condition reads
ConditionIdents(condition) ==
    Idents(condition.left_expression) \cup Idents(condition.right_expression)

\* the header of an `if`/`elseif` clause or of a `while`, as a line of the program
Header(condition) == [kind |-> "Header", condition |-> condition]

\* the lines of a block in source order: its simple statements and the
\* headers of its clauses and loops, every nested body included
RECURSIVE SourceOrder(_)
RECURSIVE SourceOrderIf(_)
SourceOrderStatement(statement) ==
    CASE statement.kind = "If" -> SourceOrderIf(statement.if_statement)
      [] statement.kind = "While" ->
           <<Header(statement.condition)>> \o SourceOrder(statement.block)
      [] OTHER -> <<statement>>

SourceOrderIf(if_statement) ==
    IF if_statement.kind = "Else" THEN SourceOrder(if_statement.block)
    ELSE <<Header(if_statement.condition)>> \o SourceOrder(if_statement.block)
         \o (IF if_statement.other = <<>> THEN <<>>
             ELSE SourceOrderIf(if_statement.other[1]))

SourceOrder(block) ==
    IF block = <<>> THEN <<>>
    ELSE SourceOrderStatement(Head(block)) \o SourceOrder(Tail(block))

\* the names a line reads
LineIdents(line) ==
    CASE line.kind = "Header" -> ConditionIdents(line.condition)
      [] OTHER -> Idents(line.expression)

\* the names declared by a `let` among the first n lines
LetsBefore(lines, n) ==
    {lines[j].symbol : j \in {k \in 1..(n - 1) : lines[k].kind = "Let"}}

\* the names declared by a `let` anywhere in the lines
LetNames(lines) == LetsBefore(lines, Len(lines) + 1)

\* some assignment has no `let` of its name earlier in source order
UndeclaredAssignment(lines) ==
    \E i \in DOMAIN lines :
        lines[i].kind = "Assignment" /\ lines[i].symbol \notin LetsBefore(lines, i)

\* every name is declared with `let` before it is assigned or read
DeclaredBeforeUse(lines) ==
    \A i \in DOMAIN lines :
        /\ LineIdents(lines[i]) \subseteq LetsBefore(lines, i)
        /\ lines[i].kind = "Assignment" => lines[i].symbol \in LetsBefore(lines, i)

\* parse() has returned the AST of the whole text
ParseCompleted ==
    /\ pc # "parse"
    /\ parser.panic = ""
    /\ parser.input = <<>>
    /\ parser.current_token.token_type = "EOF"

\* process_abstract_syntax_tree has returned
ResolutionCompleted ==
    /\ ParseCompleted
    /\ symbol_todo = <<>>
    /\ panic # "Referenced symbol before assignment"

LexerPanics ==
    {"Invalid token found", "Unclosed string literal found", "Invalid number found"}

ParserPanics ==
    {"Syntax error! - Expected", "Invalid statement found",
     "Expected comparison operator to evaluate to bool",
     "Syntax Error! Expected number of ident", "Invalid elseif",
     "Invalid IF statement constructed"}

ResolverPanics == {"Referenced symbol before assignment"}

EvaluatorPanics ==
    {"Attempted to assign to an unidentified variable",
     "Attempted to use a variable before assignment",
     "Invalid number used in binary op"}

\* the run has ended
Ended == pc \in {"done", "panicked"}

(***************************************************************************)
(* Properties                                                              *)
(***************************************************************************)
\* C1: a line is printed only after the whole text has been tokenized and
\* parsed and the resolver has gone over the whole AST, both without fault;
\* a run that a lexical, syntax or resolver fault ends has printed nothing.
C1_PassesStrictlyOrdered ==
    /\ output # <<>> =>
          /\ ResolutionCompleted
          /\ pc \in {"process_block", "done", "panicked"}
          /\ panic \in {""} \cup EvaluatorPanics
    /\ (pc = "panicked" /\ panic \notin EvaluatorPanics) =>
          /\ panic \in LexerPanics \cup ParserPanics \cup ResolverPanics
          /\ output = <<>>
          /\ global_scope = HashMapNew

\* two valid prints and then an unterminated string: the run ends in the
\* lexical fault with nothing printed
C1_Witness ==
    /\ contents = Join(<<Print1, Print1, PrintUnclosed>>)
    /\ pc = "panicked"
    /\ panic = "Unclosed string literal found"
    /\ output = <<>>

\* C2: once the resolver has gone over the program without fault, the name
\* of every `let` of the program, in whichever nested body it stands (if,
\* elseif, else, while), is in the declaration table.
C2_ResolverVisitsEveryBody ==
    ResolutionCompleted => LetNames(SourceOrder(ast.block)) \subseteq symbol_table

\* C3: a program that parses and declares every name with `let` before it
\* is assigned or read passes resolution, and its evaluation faults, if at
\* all, on a non-numeric operand only.
C3_DeclaredBeforeUseFaultsOnOperandsOnly ==
    (ParseCompleted /\ DeclaredBeforeUse(SourceOrder(ast.block))) =>
        panic \in {"", "Invalid number used in binary op"}

\* C4: the resolver pass ends in the fault exactly when some assignment of
\* the program has no `let` of its name earlier in source order, and it
\* does so before anything is evaluated.
C4_ResolutionFaultsExactlyOnUndeclaredAssignment ==
    (ParseCompleted /\ (symbol_todo = <<>> \/ pc = "panicked")) =>
        /\ (panic = "Referenced symbol before assignment")
              <=> UndeclaredAssignment(SourceOrder(ast.block))
        /\ panic = "Referenced symbol before assignment" =>
              output = <<>> /\ global_scope = HashMapNew

\* what the comparator written `comparator` means for two integers
Holds(a, comparator, b) ==
    CASE comparator = <<"=", "=">> -> a = b
      [] comparator = <<"!", "=">> -> a # b
      [] comparator = <<"<">> -> a < b
      [] comparator = <<"<", "=">> -> a <= b
      [] comparator = <<">">> -> a > b
      [] comparator = <<">", "=">> -> a >= b

\* C5: `if a <comparator> b then print 1; end` runs to its end and prints
\* 1 exactly when the comparison holds, for each of the six comparators.
C5_ComparatorsCorrect ==
    (Ended /\ contents \in CompareSources) =>
        \A a \in 0..MaxOperand, b \in 0..MaxOperand, c \in Comparators :
            contents = CompareSrc(a, c, b) =>
                /\ pc = "done"
                /\ output = IF Holds(a, c, b) THEN <<Print1Line>> ELSE <<>>

\* the operand an expression evaluates first
RECURSIVE LeftmostLeaf(_)
LeftmostLeaf(expression) ==
    CASE expression.kind = "BinaryOp" -> LeftmostLeaf(expression.left_term)
      [] expression.kind = "UnaryOp" -> LeftmostLeaf(expression.term)
      [] OTHER -> expression

\* the clauses of an if/elseif/else chain in source order
RECURSIVE ChainClauses(_)
ChainClauses(if_statement) ==
    <<if_statement>>
    \o (IF if_statement.kind # "Else" /\ if_statement.other # <<>>
        THEN ChainClauses(if_statement.other[1]) ELSE <<>>)

\* the expression a statement evaluates first
FirstEvaluated(statement) ==
    CASE statement.kind = "If" -> statement.if_statement.condition.left_expression
      [] statement.kind = "While" -> statement.condition.left_expression
      [] OTHER -> statement.expression

\* the names a statement may read when process_statement is called on it
StatementIdents(statement) ==
    CASE statement.kind = "If" ->
           UNION {ConditionIdents(clause.condition) :
                    clause \in {c \in Range(ChainClauses(statement.if_statement)) :
                                  c.kind # "Else"}}
      [] statement.kind = "While" -> ConditionIdents(statement.condition)
      [] OTHER -> Idents(statement.expression)

\* what C6 says of the step on `statement` whose first operand is `leaf`
ReadFaultsWhenAbsent(statement, leaf) ==
    /\ (leaf.kind = "Ident" /\ leaf.symbol \notin DOMAIN global_scope) =>
          /\ pc' = "panicked"
          /\ panic' = "Attempted to use a variable before assignment"
          /\ panic_arg' = leaf.symbol
    /\ panic' = "Attempted to use a variable before assignment" =>
          panic_arg' \in StatementIdents(statement) \ DOMAIN global_scope
    /\ (statement.kind # "If"
        /\ ~(StatementIdents(statement) \subseteq DOMAIN global_scope)) =>
          pc' = "panicked"

\* C6: an evaluation step faults with 'used before assignment' on a name
\* exactly when it reads the name while the runtime store has no entry for
\* it, whatever the declaration table holds; and a resolver step faults on
\* the target of an assignment statement only, never on a name an
\* expression uses.
C6_ReadFaultsExactlyWhenNotStored ==
    [][/\ (pc = "process_block" /\ interpreter_todo # <<>>) =>
             ReadFaultsWhenAbsent(Head(interpreter_todo),
                 LeftmostLeaf(FirstEvaluated(Head(interpreter_todo))))
       /\ (pc = "symbol_table" /\ symbol_todo # <<>> /\ pc' = "panicked") =>
             /\ Head(symbol_todo).kind = "Assignment"
             /\ panic_arg' = Head(symbol_todo).symbol
             /\ panic_arg' \notin symbol_table]_vars

\* `let x = x + 1;`: x is in the declaration table and the read of x faults
C6_Witness ==
    /\ contents = LetXXPlus1
    /\ pc = "panicked"
    /\ panic = "Attempted to use a variable before assignment"
    /\ panic_arg = <<"x">>
    /\ panic_arg \in symbol_table
    /\ panic_arg \notin DOMAIN global_scope

\* C7: with s holding the text abc, every statement using s as the operand
\* of a unary operation, a binary operation or a comparison ends the run in
\* the 'invalid number' fault.
C7_StringOperandsFault ==
    (Ended /\ contents \in StringSources) =>
        \A t \in StringOperandStatements :
            contents = Join(<<Let(<<"s">>, StringLiteral(<<"a", "b", "c">>)), t>>) =>
                pc = "panicked" /\ panic = "Invalid number used in binary op"

\* the clause decides the chain: an else, or a condition that is true or faults
Decides(clause, scope) ==
    \/ clause.kind = "Else"
    \/ process_condition(clause.condition, scope).value
    \/ process_condition(clause.condition, scope).panic # ""

\* what C8 says of the step on a chain of these clauses, `decided` being
\* the positions of the clauses that decide
OnlyFirstDecidingClauseRuns(clauses, decided) ==
    /\ global_scope' = global_scope
    /\ output' = output
    /\ IF decided = {}
       THEN /\ interpreter_todo' = Tail(interpreter_todo)
            /\ pc' = pc /\ panic' = ""
       ELSE \E k \in decided :
            /\ \A j \in decided : k <= j
            /\ IF clauses[k].kind # "Else"
                  /\ process_condition(clauses[k].condition, global_scope).panic # ""
               THEN pc' = "panicked" /\ panic' # ""
               ELSE /\ interpreter_todo' = clauses[k].block \o Tail(interpreter_todo)
                    /\ pc' = pc /\ panic' = ""

\* C8: the step on an if/elseif/else chain hands over for execution the body
\* of the first clause, in source order, whose condition is true (an else
\* counts as true), and no other; conditions after it are not evaluated and
\* so do not fault; with no such clause nothing runs; the store and the
\* output are unchanged by the step.
C8_AtMostOneClauseRuns ==
    [][(pc = "process_block" /\ interpreter_todo # <<>>
        /\ Head(interpreter_todo).kind = "If") =>
          With(ChainClauses(Head(interpreter_todo).if_statement), LAMBDA clauses :
            OnlyFirstDecidingClauseRuns(clauses,
                {k \in DOMAIN clauses : Decides(clauses[k], global_scope)}))]_vars

\* `if 1 == 1 then print 1; elseif x == 1 then let x = 1; end`: the first
\* body has run, the condition reading the unstored x has not faulted
C8_Witness ==
    /\ contents = IfElseIfEnd(OneIsOne, Print1, XIsOne, LetX1)
    /\ pc = "done"
    /\ output = <<Print1Line>>
    /\ global_scope = HashMapNew

\* the lines 0, 1, ..., N-1
Counting(N) == [i \in 1..N |-> Numeral(i - 1)]

\* what the counting loop to N followed by `post` prints
WhileOutput(N, post) == Counting(N) \o (IF post = <<>> THEN <<>> ELSE <<Numeral(N)>>)

IsPrefix(a, b) == Len(a) <= Len(b) /\ a = SubSeq(b, 1, Len(a))

\* the counting loop has ended and printed what it should
WhileDone ==
    \E N \in 0..MaxN, post \in {<<>>, <<PrintI>>} :
        /\ contents = WhileSrc(N, post)
        /\ pc = "done"
        /\ output = WhileOutput(N, post)

\* the counting loop has so far printed what it should, without fault
WhileOnTrack ==
    \A N \in 0..MaxN, post \in {<<>>, <<PrintI>>} :
        contents = WhileSrc(N, post) =>
            IsPrefix(output, WhileOutput(N, post)) /\ panic = ""

\* C9: `let i = 0; while i < N then print i; i = i + 1; end`, alone or
\* followed by `print i;`, never faults, prints 0, 1, ... in order, and
\* ends having printed exactly 0 .. N-1 (then N by the statement after it).
C9_CountingLoopTerminates ==
    /\ [](contents \in WhileSources => WhileOnTrack)
    /\ (contents \in WhileSources) ~> WhileDone

\* the loop to 3 followed by `print i;` has ended
C9_Witness ==
    /\ contents = WhileSrc(3, <<PrintI>>)
    /\ pc = "done"
    /\ output = <<<<"0">>, <<"1">>, <<"2">>, <<"3">> >>

\* C10: `print a + b * c;` prints a + (b * c) and `print a - b - c;`
\* prints (a - b) - c, as integers without a fractional part.
C10_PrecedenceAndAssociativity ==
    (Ended /\ contents \in ArithSources) =>
        /\ \A a \in 0..MaxOperand, b \in 0..MaxOperand, c \in 0..MaxOperand :
            /\ contents = ArithSrc(a, <<"+">>, b, <<"*">>, c) =>
                  pc = "done" /\ output = <<IntegerNumeral(a + (b * c))>>
            /\ contents = ArithSrc(a, <<"-">>, b, <<"-">>, c) =>
                  pc = "done" /\ output = <<IntegerNumeral((a - b) - c)>>
        /\ contents = ArithSrc(8, <<"-">>, 3, <<"-">>, 2) =>
              pc = "done" /\ output = <<<<"3">> >>

\* `print 2 + 3 * 4;` has printed 14
C10_Witness ==
    /\ contents = ArithSrc(2, <<"+">>, 3, <<"*">>, 4)
    /\ pc = "done"
    /\ output = <<<<"1", "4">> >>

\* the lines of a block in source order, the bodies of its `while`s and
\* the bodies of its `if`s (the first clause of a chain) included
RECURSIVE IfWhileOrder(_)
IfWhileOrderStatement(statement) ==
    CASE statement.kind = "If" ->
           <<Header(statement.if_statement.condition)>>
           \o IfWhileOrder(statement.if_statement.block)
      [] statement.kind = "While" ->
           <<Header(statement.condition)>> \o IfWhileOrder(statement.block)
      [] OTHER -> <<statement>>

IfWhileOrder(block) ==
    IF block = <<>> THEN <<>>
    ELSE IfWhileOrderStatement(Head(block)) \o IfWhileOrder(Tail(block))

\* what C11 says of a step of the evaluator on `statement`, a `let` or an
\* assignment whose name is registered and whose expression is `e`
AssignmentStores(statement, e) ==
    (statement.kind \in {"Let", "Assignment"} /\ statement.symbol \in symbol_table
     /\ e.panic = "") =>
        /\ pc' = pc
        /\ global_scope' = insert(global_scope, statement.symbol, e.value)

\* what C11 says of any step of the evaluator on `statement`: what is
\* stored stays stored, with its value, unless the statement assigns to it
StoredStaysReadable(statement) ==
    \A name \in DOMAIN global_scope :
        /\ name \in DOMAIN global_scope'
        /\ global_scope'[name] # global_scope[name] =>
              statement.kind \in {"Let", "Assignment"} /\ statement.symbol = name

Lexeme(before, left) ==
    SubSeq(skip_whitespace(before), 1, Len(skip_whitespace(before)) - Len(left))

\* C12: the text stored in every token get_token returns (a number, a
\* string, an identifier or keyword, an operator, a semicolon) is the
\* lexeme, the characters of the source the token was made from.
C12_TokenTextIsLexeme ==
    [][(pc = "process_next" /\ parser'.panic = ""
        /\ parser'.next_token.token_type \notin {"EOF", "ILLEGAL"}) =>
          parser'.next_token.token_text = Lexeme(parser.input, parser'.input)]_vars

\* the end-of-input token, as get_token returns it with nothing left
EndOfInput == Lexed(Token("EOF", <<NulChar>>), <<>>)

\* C13: once get_token has returned the end-of-input token, the next call
\* returns it again without fault and leaves the tokenizer as it is, so
\* every later call does too; and when only whitespace is left of the
\* text, the next call returns the end-of-input token.
C13_EndOfInputAbsorbing ==
    /\ []((pc = "process_next" /\ parser.next_token.token_type = "EOF") =>
            /\ parser.input = <<>>
            /\ get_token(parser.input) = EndOfInput)
    /\ []((pc = "process_next" /\ skip_whitespace(parser.input) = <<>>) =>
            get_token(parser.input) = EndOfInput)
    /\ [][(pc = "process_next" /\ parser.next_token.token_type = "EOF") =>
            /\ parser'.next_token = parser.next_token
            /\ parser'.current_token = parser.next_token
            /\ parser'.panic = ""
            /\ pc' = pc]_vars

\* `12` and whitespace after it: end-of-input has been returned twice
C13_Witness ==
    /\ contents = <<"1", "2", " ", "\n">>
    /\ pc = "process_next"
    /\ parser.current_token.token_type = "EOF"
    /\ parser.next_token.token_type = "EOF"

\* the statements of a written body
BodyNodes(body) ==
    [i \in DOMAIN body |->
        IF body[i] = "print"
        THEN StatementPrint(ExpressionLiteral(LiteralNumber(<<"1">>)))
        ELSE StatementLet(<<"x">>, ExpressionLiteral(LiteralNumber(<<"1">>)))]

\* the condition `1 == i`
ConditionNode(i) ==
    Condition(ExpressionLiteral(LiteralNumber(<<"1">>)), "Equal",
              ExpressionLiteral(LiteralNumber(Numeral(i))))

\* the linked chain a written chain stands for, from its i-th clause on:
\* <<clause>>, or <<>> after the last clause
RECURSIVE ChainNode(_, _, _)
ChainNode(i, bodies, else_body) ==
    IF i > Len(bodies)
    THEN IF else_body = <<>> THEN <<>>
         ELSE <<IfStatementElse(Block(BodyNodes(else_body[1])))>>
    ELSE IF i = 1
    THEN <<IfStatementIf(ConditionNode(i), Block(BodyNodes(bodies[i])),
                         ChainNode(i + 1, bodies, else_body))>>
    ELSE <<IfStatementElseIf(ConditionNode(i), Block(BodyNodes(bodies[i])),
                             ChainNode(i + 1, bodies, else_body))>>

\* each well-formed chain written, alone or followed by `print 1;`, with
\* the block it stands for
GoodChainParses ==
    {<<ChainSrc(w[1], w[2], <<>>, post),
       <<StatementIf(ChainNode(1, w[1], w[2])[1])>> \o BodyNodes(post[2])>> :
        w \in WrittenChains,
        post \in {<<<<>>, <<>> >>, <<<<Print1>>, <<"print">> >>}}

\* C14: a well-formed chain parses, without fault and to the end of the
\* text, into one `if` statement whose clauses are linked in source order,
\* each with its own condition and exactly the statements written in its
\* body; its single `end` closes it, so that a statement written after the
\* `end` is the next statement of the enclosing block.  A chain whose
\* `else` clause is followed by another clause ends in the parse fault.
C14_ChainClosedByOneEnd ==
    /\ (pc # "parse" /\ contents \in GoodChainSources) =>
          /\ ParseCompleted
          /\ \A written \in GoodChainParses :
                written[1] = contents => ast.block = written[2]
    /\ (pc # "parse" /\ contents \in BadChainSources) =>
          pc = "panicked" /\ panic = "Invalid elseif"

\* `if 1 == 1 then let x = 1; print 1; elseif 1 == 2 then else print 1; end
\* print 1;` has been parsed into a chain of three clauses and a print
C14_Witness ==
    /\ contents = ChainSrc(<<<<"let", "print">>, <<>> >>, <<<<"print">> >>, <<>>,
                           <<Print1>>)
    /\ pc = "symbol_table"
    /\ Len(ast.block) = 2
    /\ ast.block[1].if_statement.other[1].kind = "ElseIf"
    /\ ast.block[1].if_statement.other[1].block = <<>>
    /\ ast.block[1].if_statement.other[1].other[1].kind = "Else"
    /\ ast.block[2].kind = "Print"

\* parse has not returned: a fault of the tokenizer or of the parser has
\* ended the run, and there is no AST, no resolution and no output
ParseFaulted ==
    /\ pc = "panicked"
    /\ parser.panic # ""
    /\ panic = parser.panic
    /\ panic \in LexerPanics \cup ParserPanics
    /\ ast = AbstractSyntaxTree(Block(<<>>))
    /\ symbol_todo = <<>> /\ interpreter_todo = <<>>
    /\ symbol_table = SymbolTableNew /\ global_scope = HashMapNew
    /\ output = <<>>

\* parse has given its answer: the whole text consumed, or a fault
ParseAnswered == ParseCompleted \/ ParseFaulted

\* C15: on every text parse returns or faults; it returns only with the
\* whole text consumed and the end-of-input token current, and a fault
\* leaves no AST.  A compound statement with a required `;`, `then` or
\* `end` left out or written as another of them, or cut short anywhere
\* (so that the text ends inside a body), ends in a parser fault.
C15_ParseTerminatesOrFaults ==
    /\ [](pc # "parse" => ParseAnswered)
    /\ []((pc # "parse" /\ contents \in CompleteSources) => ParseCompleted)
    /\ []((pc # "parse" /\ contents \in MissingSources \cup MismatchedSources
                                          \cup TruncatedSources) =>
             ParseFaulted /\ panic \in ParserPanics)
    /\ <>(pc # "parse")

\* `while 1 == 2 then if 1 == 1 then print 1; end`, the text ending inside
\* the body of the while, has ended in the fault of parse_statement
C15_Witness ==
    /\ contents = Join(Without(NestedLexemes, Len(NestedLexemes)))
    /\ contents \in MissingSources \cap TruncatedSources
    /\ ParseFaulted
    /\ panic = "Invalid statement found"

\* the text has a character of the set
HasChar(text, chars) == \E i \in DOMAIN text : text[i] \in chars

\* what is left to read is an end of the text
RECURSIVE IsSuffix(_, _)
IsSuffix(rest, text) ==
    rest = text \/ (text # <<>> /\ IsSuffix(rest, Tail(text)))

\* C16: a text with a character that starts no token, written outside a
\* string literal, never gets past parse: the run ends in a fault with no
\* AST, no resolution and no output.  Where the character is written
\* before, after or between the lexemes of a statement, the tokenizer has
\* not faulted: it has made the illegal token (with no text) and gone on
\* to the token after it, and it is the parser that faults, with the
\* illegal token as its current token.
C16_IllegalTokenFaultsInParser ==
    /\ (pc # "parse" /\ HasChar(contents, {"@", "$"})
                     /\ ~HasChar(contents, {"\""})) => ParseFaulted
    /\ (pc # "parse" /\ contents \in IllegalSources) =>
          /\ ParseFaulted
          /\ panic \in ParserPanics
          /\ parser.current_token = Token("ILLEGAL", <<>>)
          /\ parser.next_token.token_type # "ILLEGAL"
          /\ IsSuffix(parser.input, contents)

\* `if 1 == 1 then print 1; elseif 1 == 2 then let x = 1; else $ print 2;
\* end` has faulted at the illegal token at the start of the else body,
\* the tokenizer having gone on to `print`
C16_Witness ==
    /\ contents = Join(Inserted(ChainLexemes, 19, <<"$">>))
    /\ ParseFaulted
    /\ panic = "Invalid statement found"
    /\ parser.current_token = Token("ILLEGAL", <<>>)
    /\ parser.next_token = Token("PRINT", kPrint)

\* the run has ended without fault having printed exactly the line
PrintsOnly(line) == Ended => (pc = "done" /\ panic = "" /\ output = <<line>>)

\* C17: a sign written before an operand changes nothing: `print -n;` and
\* `print +n;` print n as written, `let x = n; print -x;` prints n, and
\* `a - -b`, `a + -b`, `a * -b` (and the same with `+b`) print the value
\* of `a - b`, `a + b`, `a * b`.
C17_SignHasNoEffect ==
    /\ \A sign \in Signs, n \in SignedNumerals :
          /\ contents = SignedLiteralSrc(sign, n) => PrintsOnly(n)
          /\ contents = SignedIdentSrc(sign, n) => PrintsOnly(n)
    /\ \A a \in 0..MaxOperand, sign \in Signs, b \in 0..MaxOperand :
          /\ contents = SignedRightSrc(a, "-", sign, b) =>
                PrintsOnly(IntegerNumeral(a - b))
          /\ contents = SignedRightSrc(a, "+", sign, b) =>
                PrintsOnly(Numeral(a + b))
          /\ contents = SignedRightSrc(a, "*", sign, b) =>
                PrintsOnly(Numeral(a * b))

\* `print 2 - -3;` has printed -1
C17_Witness ==
    /\ contents = SignedRightSrc(2, "-", "-", 3)
    /\ pc = "done"
    /\ output = <<<<"-", "1">> >>
    /\ ast.block[1].expression.right_term.kind = "UnaryOp"
    /\ ast.block[1].expression.right_term.operator = "Minus"

\* the faults of the evaluation of an expression
ExpressionPanics ==
    {"Attempted to use a variable before assignment",
     "Invalid number used in binary op"}

\* the fault of an assignment to a name the resolver has not registered
TargetPanic == "Attempted to assign to an unidentified variable"

\* the step evaluates a `let` or an assignment
StoreStep ==
    /\ pc = "process_block"
    /\ interpreter_todo # <<>>
    /\ Head(interpreter_todo).kind \in {"Let", "Assignment"}
    /\ pc' # pc \/ global_scope' # global_scope
       \/ interpreter_todo' # interpreter_todo

\* what a step that evaluates the `let` or assignment does
StoreStepOrder(target, expression) ==
    \* the expression is evaluated first: its fault is the one reported,
    \* whether or not the target is registered
    /\ ~(Idents(expression) \subseteq DOMAIN global_scope) =>
          pc' = "panicked" /\ panic' \in ExpressionPanics
    \* the target is checked second
    /\ target \notin symbol_table => pc' = "panicked"
    /\ panic' = TargetPanic =>
          /\ target \notin symbol_table
          /\ Idents(expression) \subseteq DOMAIN global_scope
    \* a fault leaves the store as it was
    /\ pc' = "panicked" =>
          /\ global_scope' = global_scope
          /\ panic' \in ExpressionPanics \cup {TargetPanic}
    \* the store is written last, and only its entry for the target
    /\ pc' # "panicked" =>
          /\ target \in symbol_table
          /\ DOMAIN global_scope' = DOMAIN global_scope \cup {target}
          /\ \A name \in DOMAIN global_scope \ {target} :
                global_scope'[name] = global_scope[name]

\* C18: the names of the store are always names of the resolver's table;
\* no step of the evaluation changes the table; a `let` or assignment
\* evaluates its expression, then checks its target, then writes, so that
\* one whose expression faults or whose target is not registered leaves
\* the store unchanged.
C18_StoreWithinTable ==
    /\ [](DOMAIN global_scope \subseteq symbol_table)
    /\ [][pc = "process_block" => symbol_table' = symbol_table]_vars
    /\ [][StoreStep => StoreStepOrder(Head(interpreter_todo).symbol,
                                      Head(interpreter_todo).expression)]_vars

\* `let z = 1; if 1 == 2 then print 1; else let x = y; end`: the `let` of
\* the else body, whose target is not registered and whose expression
\* faults, has ended the run with the fault of the expression and with the
\* store as it was
C18_Witness ==
    /\ contents = StoreElseSrc(<<LetZ1>>, Let(<<"x">>, <<"y">>))
    /\ pc = "panicked"
    /\ panic = "Attempted to use a variable before assignment"
    /\ Head(interpreter_todo).kind = "Let"
    /\ Head(interpreter_todo).symbol \notin symbol_table
    /\ DOMAIN global_scope = {<<"z">>}

====
